---- MODULE Spec2Model ----
(***************************************************************************)
(* money_tools: the daily accrual simulator (_amortize, in rate.py and in  *)
(* mortgage.py), the Rate segment built on it, the Mortgage with its       *)
(* monthly and yearly aggregations and its payment_summary, and the        *)
(* composition of Rate segments.                                           *)
(*                                                                         *)
(* Amounts of money are integers in cents.  The amounts a caller passes    *)
(* (principal, monthly_pmt, addl_principal) are given in mills (tenths of  *)
(* a cent) so that round(x, 2) is a real conversion; the interest rate is  *)
(* given in thousandths (10 is the rate 0.01).  round() is round-half-even *)
(* on the exact quotient.  Every amount is read at the precision of a      *)
(* cent: the binary floating point error of the sum of rate.py line 66,    *)
(* which the source does not round, is not represented.                    *)
(***************************************************************************)
EXTENDS Integers, Sequences, FiniteSets, TLC

VARIABLES
    pc,            \* position of the running call
    args,          \* the arguments of the call (Init draws them)
    self,          \* the fields of the object under construction
    p,             \* _amortize: period counter
    beg_balance,   \* _amortize: balance at the start of the day
    end_balance,   \* _amortize: balance at the end of the day
    running_date,  \* _amortize: the day being computed
    rows,          \* the rows _amortize has yielded, in order
    frame,         \* the parameters of the running _amortize
    segments,      \* the Rate segments a composed mortgage has built, in order
    raised,        \* the exception that ended the call, or NoError
    result         \* what the last method called on the Mortgage returned or raised

vars == <<pc, args, self, p, beg_balance, end_balance, running_date, rows, frame,
          segments, raised, result>>

----------------------------------------------------------------------------
(* Calendar: datetime.date, calendar.monthrange, dateutil.relativedelta.   *)

ANNUAL_PAYMENTS == 365

D(y, m, d) == [year |-> y, month |-> m, day |-> d]

IsLeap(y) == (y % 4 = 0 /\ y % 100 # 0) \/ y % 400 = 0

\* calendar.monthrange(year, month)[1]
monthrange(y, m) ==
    IF m = 2 THEN (IF IsLeap(y) THEN 29 ELSE 28)
    ELSE IF m \in {4, 6, 9, 11} THEN 30 ELSE 31

IsDate(y, m, d) == y >= 1 /\ m \in 1..12 /\ d >= 1 /\ d <= monthrange(y, m)

\* running_date += relativedelta(days=1)
NextDay(dt) ==
    IF dt.day < monthrange(dt.year, dt.month) THEN D(dt.year, dt.month, dt.day + 1)
    ELSE IF dt.month < 12 THEN D(dt.year, dt.month + 1, 1)
    ELSE D(dt.year + 1, 1, 1)

\* dt + relativedelta(years=n): same month, the day clipped to the month's length
AddYears(dt, n) ==
    LET m == monthrange(dt.year + n, dt.month)
    IN  D(dt.year + n, dt.month, IF dt.day > m THEN m ELSE dt.day)

\* date comparison a < b and a <= b
DateLT(a, b) ==
    \/ a.year < b.year
    \/ a.year = b.year /\ a.month < b.month
    \/ a.year = b.year /\ a.month = b.month /\ a.day < b.day

DateLE(a, b) == a = b \/ DateLT(a, b)

----------------------------------------------------------------------------
(* Rounding and the python helpers.                                        *)

Min(a, b) == IF a <= b THEN a ELSE b

\* round() of the exact quotient n/d (d > 0) to an integer, ties to even
RoundHalfEven(n, d) ==
    LET q == n \div d
        r == n % d
    IN  IF 2 * r > d \/ (2 * r = d /\ q % 2 = 1) THEN q + 1 ELSE q

\* round(x, 2) of an amount given in mills, as cents
Round2(mills) == RoundHalfEven(mills, 10)

----------------------------------------------------------------------------
(* Values a caller may pass where a date is expected.                      *)

NoDate == D(0, 0, 0)

DateVal(dt) == [kind |-> "date", date |-> dt, chars |-> <<>>, val |-> 0]
StrVal(cs)  == [kind |-> "str", date |-> NoDate, chars |-> cs, val |-> 0]
IntVal(n)   == [kind |-> "int", date |-> NoDate, chars |-> <<>>, val |-> n]
None        == [kind |-> "none", date |-> NoDate, chars |-> <<>>, val |-> 0]

\* python truth value of such a value (`not end_date`)
Truthy(v) ==
    CASE v.kind = "date" -> TRUE
      [] v.kind = "str"  -> v.chars # <<>>
      [] v.kind = "int"  -> v.val # 0
      [] OTHER           -> FALSE

\* an exception: its type and its message, the message cut into pieces so
\* that each name of a parameter in it is a piece of its own
NoError == [type |-> "none", msg |-> <<>>]
Error(type, msg) == [type |-> type, msg |-> msg]

dt_fmt == "%Y-%m-%d"

DigitVal ==
    ("0" :> 0) @@ ("1" :> 1) @@ ("2" :> 2) @@ ("3" :> 3) @@ ("4" :> 4) @@
    ("5" :> 5) @@ ("6" :> 6) @@ ("7" :> 7) @@ ("8" :> 8) @@ ("9" :> 9)

AllDigits(cs) == \A i \in 1..Len(cs) : cs[i] \in DOMAIN DigitVal

RECURSIVE DecimalValue(_)
DecimalValue(cs) ==
    IF cs = <<>> THEN 0
    ELSE 10 * DecimalValue(SubSeq(cs, 1, Len(cs) - 1)) + DigitVal[cs[Len(cs)]]

\* the positions i of the second "-" at which cs reads as %Y-%m-%d:
\* four digits, "-", a month 1..12 in one or two digits, "-", a day 1..31 in
\* one or two digits
FormatMatches(cs) ==
    { i \in {7, 8} :
        /\ Len(cs) \in (i + 1)..(i + 2)
        /\ AllDigits(SubSeq(cs, 1, 4))
        /\ cs[5] = "-"
        /\ cs[i] = "-"
        /\ AllDigits(SubSeq(cs, 6, i - 1))
        /\ DecimalValue(SubSeq(cs, 6, i - 1)) \in 1..12
        /\ AllDigits(SubSeq(cs, i + 1, Len(cs)))
        /\ DecimalValue(SubSeq(cs, i + 1, Len(cs))) \in 1..31 }

\* datetime.strptime(cs, dt_fmt).date(): [err, date]
strptime(cs) ==
    IF FormatMatches(cs) = {}
    THEN IF \E k \in 1..Len(cs) : FormatMatches(SubSeq(cs, 1, k)) # {}
         THEN [err |-> Error("ValueError", <<"unconverted data remains">>), date |-> NoDate]
         ELSE [err |-> Error("ValueError",
                             <<"time data {} does not match format {}">> \o cs \o <<dt_fmt>>),
               date |-> NoDate]
    ELSE LET i == CHOOSE j \in FormatMatches(cs) : TRUE
             y == DecimalValue(SubSeq(cs, 1, 4))
             m == DecimalValue(SubSeq(cs, 6, i - 1))
             d == DecimalValue(SubSeq(cs, i + 1, Len(cs)))
         IN  IF y = 0
             THEN [err |-> Error("ValueError",
                                 <<"time data {} does not match format {}">> \o cs \o <<dt_fmt>>),
                   date |-> NoDate]
             ELSE IF ~IsDate(y, m, d)
             THEN [err |-> Error("ValueError", <<"day is out of range for month">>),
                   date |-> NoDate]
             ELSE [err |-> NoError, date |-> D(y, m, d)]

\* 'Value of {} must be a date object or valid date string.'.format(field)
INVALID_DATE_ERROR_MSG(field) ==
    <<"Value of {} must be a date object or valid date string.", field>>

\* _parse_date(date_input, error_msg): [err, date].  The first statement of
\* the body assigns error_msg, so the message passed in is never used.
_parse_date(date_input, error_msg) ==
    LET msg == <<"Value of date input must be a date object or valid date string.">>
    IN  CASE date_input.kind = "date" -> [err |-> NoError, date |-> date_input.date]
          [] date_input.kind = "str"  -> strptime(date_input.chars)
          [] OTHER -> [err |-> Error("ValueError", msg), date |-> NoDate]

----------------------------------------------------------------------------
(* One iteration of the loop of _amortize.                                 *)

\* mutant of DailyInterest: the quotient truncated instead of rounded
DailyInterest_Truncated(interest_rate, beg) ==
    (interest_rate * beg) \div (1000 * ANNUAL_PAYMENTS)

\* daily_interest = round((interest_rate/ANNUAL_PAYMENTS) * beg_balance, 2)
DailyInterest(interest_rate, beg) ==
    RoundHalfEven(interest_rate * beg, 1000 * ANNUAL_PAYMENTS)

\* mutant of PaymentDue: the payment with the sign np.pmt gives it
PaymentDue_Negated(monthly_pmt, beg, daily_interest) ==
    Min(-Round2(monthly_pmt), beg + daily_interest)

\* pmt on a payment day: round(monthly_pmt, 2) capped at beg_balance + daily_interest
PaymentDue(monthly_pmt, beg, daily_interest) ==
    Min(Round2(monthly_pmt), beg + daily_interest)

\* mutant of AdditionalDue: capped at beg_balance, not at what the payment leaves
AdditionalDue_CappedAtBalance(addl_principal, beg, pmt, daily_interest) ==
    Min(Round2(addl_principal), beg)

\* addl_pmt on a payment day: capped at beg_balance - principal,
\* where principal = pmt - daily_interest
AdditionalDue(addl_principal, beg, pmt, daily_interest) ==
    LET principal == pmt - daily_interest
    IN  Min(Round2(addl_principal), beg - principal)

\* mutant of EndOfDay: the additional payment is not deducted
EndOfDay_WithoutAdditional(beg, daily_interest, pmt, addl_pmt) ==
    beg + daily_interest - pmt

\* end_balance = beg_balance + daily_interest - (pmt + addl_pmt)
EndOfDay(beg, daily_interest, pmt, addl_pmt) ==
    beg + daily_interest - (pmt + addl_pmt)

\* the columns of the table _amortize's rows make
RowColumns ==
    {"Date", "Period", "Begin Balance", "Payment", "Interest", "Additional_Payment",
     "End Balance"}

\* mutant of Row: payments on the payment day and on every later day of the month
Row_PaymentDayOrLater(date, period, beg, interest_rate, monthly_pmt, addl_principal, payment_day) ==
    LET daily_interest == DailyInterest(interest_rate, beg)
        payday == date.day >= payment_day
        pmt == IF payday THEN PaymentDue(monthly_pmt, beg, daily_interest) ELSE 0
        addl_pmt == IF payday
                    THEN AdditionalDue(addl_principal, beg, pmt, daily_interest)
                    ELSE 0
    IN  [Date |-> date,
         Period |-> period,
         Begin_Balance |-> beg,
         Payment |-> pmt,
         Interest |-> daily_interest,
         Additional_Payment |-> addl_pmt,
         End_Balance |-> EndOfDay(beg, daily_interest, pmt, addl_pmt)]

\* the OrderedDict yielded for the day
Row(date, period, beg, interest_rate, monthly_pmt, addl_principal, payment_day) ==
    LET daily_interest == DailyInterest(interest_rate, beg)
        payday == date.day = payment_day
        pmt == IF payday THEN PaymentDue(monthly_pmt, beg, daily_interest) ELSE 0
        addl_pmt == IF payday
                    THEN AdditionalDue(addl_principal, beg, pmt, daily_interest)
                    ELSE 0
    IN  [Date |-> date,
         Period |-> period,
         Begin_Balance |-> beg,
         Payment |-> pmt,
         Interest |-> daily_interest,
         Additional_Payment |-> addl_pmt,
         End_Balance |-> EndOfDay(beg, daily_interest, pmt, addl_pmt)]

----------------------------------------------------------------------------
(* The calls the model makes.                                              *)

MaxSpan == 45        \* longest date range, in days, of the short calls
MaxSegments == 2     \* longest list of segments of a composed mortgage

RECURSIVE AddDays(_, _)
AddDays(dt, n) == IF n = 0 THEN dt ELSE AddDays(NextDay(dt), n - 1)

Call(entry, principal, interest_rate, monthly_pmt, addl_principal, start_date, term, end_date, payment_day) ==
    [entry |-> entry, principal |-> principal, interest_rate |-> interest_rate,
     monthly_pmt |-> monthly_pmt, addl_principal |-> addl_principal,
     start_date |-> start_date, term |-> term, end_date |-> end_date,
     payment_day |-> payment_day, rates |-> <<>>]

Starts == {D(2019, 1, 1), D(2019, 1, 20), D(2020, 2, 10)}
Ends(start) == {D(2018, 12, 31)} \cup {AddDays(start, k) : k \in {0, 12, MaxSpan}}
Principals == {0, 300000, 1000005}
Rates == {0, 10, 365}
Payments == {0, 100000, 400000}
Additionals == {0, 150000}
PaymentDays == {1, 15}

\* amortize_table(...) of rate.py, called directly
RateTableCalls ==
    UNION { { Call("rate.amortize_table", pr, r, m, a, DateVal(s), 0, DateVal(e), pd) :
                pr \in Principals, r \in Rates, m \in Payments, a \in Additionals,
                e \in Ends(s), pd \in PaymentDays } : s \in Starts }

\* amortize_table(...) of mortgage.py, called directly (monthly_pmt given)
MortgageTableCalls ==
    UNION { { Call("mortgage.amortize_table", 300000, r, m, a, DateVal(s), 1, e, pd) :
                r \in {0, 365}, m \in {100000, 400000}, a \in Additionals,
                e \in {None, DateVal(AddDays(s, 12))}, pd \in PaymentDays } :
            s \in {D(2019, 1, 20)} }

Str_2019_01_20 == <<"2", "0", "1", "9", "-", "0", "1", "-", "2", "0">>
Str_2019_1_20  == <<"2", "0", "1", "9", "-", "1", "-", "2", "0">>
Str_20_01_2019 == <<"2", "0", "/", "0", "1", "/", "2", "0", "1", "9">>
Str_2019_02_30 == <<"2", "0", "1", "9", "-", "0", "2", "-", "3", "0">>
Str_2019_03_05 == <<"2", "0", "1", "9", "-", "0", "3", "-", "0", "5">>
Str_2019_03_05x == <<"2", "0", "1", "9", "-", "0", "3", "-", "0", "5", "x">>

RateStartInputs ==
    {DateVal(D(2019, 1, 20)), StrVal(Str_2019_01_20), StrVal(Str_2019_1_20),
     StrVal(Str_20_01_2019), StrVal(Str_2019_02_30), IntVal(20190120), None}

RateEndInputs ==
    {None, DateVal(D(2019, 3, 5)), DateVal(D(2019, 1, 1)), StrVal(Str_2019_03_05),
     StrVal(Str_2019_03_05x), StrVal(<<>>), IntVal(0), IntVal(20190305)}

\* Rate(start_balance, annual_interest_rate, monthly_payment, start_date, term,
\*      end_date, payment_day)
RateCalls ==
    { Call("Rate", pr, r, m, 0, s, t, e, 1) :
        pr \in {0, 300000}, r \in {10, 365}, m \in {100000, 400000},
        s \in RateStartInputs, t \in {0, 1}, e \in RateEndInputs }

\* Mortgage(principal, term, annual_interest_rate, monthly_payment, start_date,
\*          end_date, payment_day), with a monthly payment given
MortgageCalls ==
    UNION { { Call("Mortgage", 300000, r, m, 0, DateVal(s), 1, e, pd) :
                r \in {10, 365}, m \in {10000, 100000, 400000},
                e \in {None, DateVal(AddDays(s, 12))}, pd \in PaymentDays } :
            s \in {D(2019, 1, 1), D(2019, 1, 20)} }

\* the calls of tests/test_rates.py and tests/test_mortgage.py
ReferenceCalls ==
    { Call("rate.amortize_table", 100000000, 10, 1000000, a, DateVal(D(2019, 1, 1)), 0,
           DateVal(D(2019, 12, 31)), pd) :
        <<a, pd>> \in {<<0, 1>>, <<100000, 1>>, <<100000, 10>>} }
    \cup
    { Call(en, 100000000, 10, 1000000, 0, DateVal(D(2019, 1, 1)), t,
           DateVal(D(2019, 12, 31)), 1) : <<en, t>> \in {<<"Rate", 0>>, <<"Mortgage", 1>>} }
    \cup
    { Call(en, 100000000, 10, 1100000, 0, DateVal(D(2019, 1, 1)), t,
           DateVal(D(2020, 12, 31)), 1) : <<en, t>> \in {<<"Rate", 0>>, <<"Mortgage", 2>>} }

\* segment configurations of a composed mortgage, each with a start balance
\* of its own
SegmentConfigs ==
    {Call("Rate", 999000, 365, 100000, 0, DateVal(D(2019, 1, 20)), 0,
          DateVal(D(2019, 2, 10)), 1),
     Call("Rate", 0, 10, 400000, 0, DateVal(D(2019, 2, 11)), 0,
          StrVal(Str_2019_03_05), 1),
     Call("Rate", 777000, 0, 50000, 0, DateVal(D(2019, 2, 11)), 0,
          DateVal(D(2019, 2, 20)), 15)}

\* a mortgage composed of a list of segment configurations and a start balance
ComposerCalls ==
    { [Call("Composer", pr, 0, 0, 0, None, 0, None, 0) EXCEPT !.rates = rs] :
        pr \in {300000, 1000005},
        rs \in UNION {[1..n -> SegmentConfigs] : n \in 0..MaxSegments} }

\* the call of TestMortgage.test_payment_summary
SummaryReferenceCall ==
    Call("Mortgage", 100000000, 10, 1100000, 0, DateVal(D(2019, 6, 1)), 2,
         DateVal(D(2021, 5, 31)), 1)

Calls == RateTableCalls \cup MortgageTableCalls \cup RateCalls \cup MortgageCalls
         \cup ReferenceCalls \cup ComposerCalls \cup {SummaryReferenceCall}

----------------------------------------------------------------------------
(* _amortize as a generator: one action per iteration.                     *)

NoFrame ==
    [variant |-> "none", interest_rate |-> 0, years |-> 0, monthly_pmt |-> 0,
     addl_principal |-> 0, start_date |-> NoDate, end_date |-> NoDate,
     payment_day |-> 0]

Frame(variant, interest_rate, years, monthly_pmt, addl_principal, start_date, end_date, payment_day) ==
    [variant |-> variant, interest_rate |-> interest_rate, years |-> years,
     monthly_pmt |-> monthly_pmt, addl_principal |-> addl_principal,
     start_date |-> start_date, end_date |-> end_date, payment_day |-> payment_day]

\* the date test of the while loop: rate.py line 48, mortgage.py line 62
InRange(f, date) ==
    IF f.variant = "rate"
    THEN DateLE(date, f.end_date)
    ELSE DateLT(date, AddYears(f.start_date, f.years))

\* while end_balance > 0 and <InRange>
LoopCondition(f, endb, date) == endb > 0 /\ InRange(f, date)

\* the statements before the loop: p, beg_balance, end_balance, running_date
Enter(f, principal) ==
    /\ frame' = f
    /\ p' = 1
    /\ beg_balance' = Round2(principal)
    /\ end_balance' = Round2(principal)
    /\ running_date' = f.start_date
    /\ rows' = <<>>

NoSelf ==
    [set |-> {}, start_balance |-> 0, start_date |-> NoDate, end_date |-> NoDate,
     payment_day |-> 0, schedule |-> <<>>, end_balance |-> 0,
     schedule_monthly |-> <<>>, schedule_yearly |-> <<>>, columns |-> {}]

\* no method has been called on the object
NoResult == [op |-> "none", start_date |-> None, end_date |-> None, err |-> NoError, value |-> <<>>]

Init ==
    /\ args \in Calls
    /\ pc = "call"
    /\ self = NoSelf
    /\ frame = NoFrame
    /\ p = 0
    /\ beg_balance = 0
    /\ end_balance = 0
    /\ running_date = NoDate
    /\ rows = <<>>
    /\ segments = <<>>
    /\ raised = NoError
    /\ result = NoResult

\* amortize_table(principal, interest_rate, monthly_pmt, start_date, end_date,
\*                addl_principal, payment_day) of rate.py
RateAmortizeTable ==
    /\ pc = "call"
    /\ args.entry = "rate.amortize_table"
    /\ Enter(Frame("rate", args.interest_rate, 0, args.monthly_pmt, args.addl_principal,
                   args.start_date.date, args.end_date.date, args.payment_day),
             args.principal)
    /\ pc' = "amortize"
    /\ UNCHANGED <<args, result, self, segments, raised>>

\* one iteration of the while loop: yield the row, then advance
AmortizeStep ==
    /\ pc = "amortize"
    /\ LoopCondition(frame, end_balance, running_date)
    /\ LET row == Row(running_date, p, beg_balance, frame.interest_rate,
                      frame.monthly_pmt, frame.addl_principal, frame.payment_day)
       IN  /\ rows' = Append(rows, row)
           /\ end_balance' = row.End_Balance
           /\ beg_balance' = row.End_Balance
    /\ p' = p + 1
    /\ running_date' = NextDay(running_date)
    /\ UNCHANGED <<pc, args, result, self, frame, segments, raised>>

\* the loop ends and pd.DataFrame(...) of a direct call returns
AmortizeTableReturn ==
    /\ pc = "amortize"
    /\ ~LoopCondition(frame, end_balance, running_date)
    /\ args.entry \in {"rate.amortize_table", "mortgage.amortize_table"}
    /\ pc' = "returned"
    /\ UNCHANGED <<args, result, self, p, beg_balance, end_balance, running_date, rows, frame,
                   segments, raised>>

\* end_date as _amortize of mortgage.py sets it (lines 50-51)
MortgageEndDate(start_date, years, end_date) ==
    IF ~Truthy(end_date) THEN AddYears(start_date, years) ELSE end_date.date

\* amortize_table(principal, interest_rate, years, monthly_pmt, addl_principal,
\*                start_date, end_date, payment_day) of mortgage.py.
\* `not monthly_pmt` (the np.pmt default) is outside the calls modelled.
MortgageAmortizeTable ==
    /\ pc = "call"
    /\ args.entry = "mortgage.amortize_table"
    /\ args.monthly_pmt # 0
    /\ Enter(Frame("mortgage", args.interest_rate, args.term, args.monthly_pmt,
                   args.addl_principal, args.start_date.date,
                   MortgageEndDate(args.start_date.date, args.term, args.end_date),
                   args.payment_day),
             args.principal)
    /\ pc' = "amortize"
    /\ UNCHANGED <<args, result, self, segments, raised>>

----------------------------------------------------------------------------
(* Rate (rate.py).                                                         *)

\* mutant of ResolveEndDate: the end date is always start_date + term years
ResolveEndDate_FromTermOnly(start_date, term, end_date) ==
    [err |-> NoError, end_date |-> AddYears(start_date, term), assigned |-> TRUE]

\* Rate.__init__ lines 115-125: the end date from term and end_date, as
\* [err, end_date, assigned]; assigned tells whether self.end_date was set
\* before err was raised
ResolveEndDate(start_date, term, end_date) ==
    LET parsed == _parse_date(end_date, INVALID_DATE_ERROR_MSG("end_date"))
        fail(e) == [err |-> e, end_date |-> NoDate, assigned |-> FALSE]
    IN  CASE term = 0 /\ ~Truthy(end_date) ->
               fail(Error("ValueError",
                          <<"No term or ", "end_date",
                            " provide, provide one or the other.">>))
          [] term # 0 /\ ~Truthy(end_date) ->
               [err |-> NoError, end_date |-> AddYears(start_date, term), assigned |-> TRUE]
          [] term = 0 /\ Truthy(end_date) ->
               IF parsed.err # NoError THEN fail(parsed.err)
               ELSE [err |-> NoError, end_date |-> parsed.date, assigned |-> TRUE]
          [] OTHER ->
               IF parsed.err # NoError THEN fail(parsed.err)
               ELSE [err |-> Error("Warning",
                        <<"Both term and ", "end_date", " defined. Defaulting to use ",
                          "end_date", " value.">>),
                     end_date |-> parsed.date, assigned |-> TRUE]

\* the arguments of the Rate.__init__ that is running: those of the call, or
\* those the composed mortgage passes for its next segment
RateArgs ==
    IF args.entry = "Composer"
    THEN [args.rates[Len(segments) + 1] EXCEPT
            !.principal = IF segments = <<>> THEN args.principal
                          ELSE 10 * segments[Len(segments)].end_balance]
    ELSE args

\* mutant of LastEndBalance: the first row's End Balance
FirstEndBalance(schedule) == schedule[1].End_Balance

\* schedule['End Balance'].iloc[-1]
LastEndBalance(schedule) == schedule[Len(schedule)].End_Balance

\* Rate.__init__ up to the start of the schedule's generation
RateInit ==
    /\ \/ pc = "call" /\ args.entry = "Rate"
       \/ pc = "segment" /\ args.entry = "Composer"
    /\ LET a == RateArgs
           start == _parse_date(a.start_date, INVALID_DATE_ERROR_MSG("start_date"))
           res == ResolveEndDate(start.date, a.term, a.end_date)
           base == [NoSelf EXCEPT !.set = {"start_balance"},
                                  !.start_balance = a.principal]
       IN  IF start.err # NoError
           THEN /\ raised' = start.err
                /\ self' = base
                /\ pc' = "raised"
                /\ UNCHANGED <<p, beg_balance, end_balance, running_date, rows, frame>>
           ELSE IF res.err # NoError
           THEN /\ raised' = res.err
                /\ self' = [base EXCEPT
                              !.set = IF res.assigned
                                      THEN {"start_balance", "start_date", "end_date"}
                                      ELSE {"start_balance", "start_date"},
                              !.start_date = start.date,
                              !.end_date = res.end_date]
                /\ pc' = "raised"
                /\ UNCHANGED <<p, beg_balance, end_balance, running_date, rows, frame>>
           ELSE /\ self' = [base EXCEPT
                              !.set = {"start_balance", "start_date", "end_date",
                                       "payment_day"},
                              !.start_date = start.date,
                              !.end_date = res.end_date,
                              !.payment_day = a.payment_day]
                \* calc_schedule: addl_principal is not passed and defaults to 0
                /\ Enter(Frame("rate", a.interest_rate, 0, a.monthly_pmt, 0,
                               start.date, res.end_date, a.payment_day),
                         a.principal)
                /\ raised' = NoError
                /\ pc' = "amortize"
    /\ UNCHANGED <<args, result, segments>>

\* calc_schedule returns and Rate.__init__ ends: an empty table has no 'Date'
\* column, so schedule['Date'] raises KeyError
RateFinish ==
    /\ pc = "amortize"
    /\ ~LoopCondition(frame, end_balance, running_date)
    /\ args.entry \in {"Rate", "Composer"}
    /\ IF rows = <<>>
       THEN /\ raised' = Error("KeyError", <<"Date">>)
            /\ pc' = "raised"
            /\ UNCHANGED self
       ELSE /\ self' = [self EXCEPT !.set = @ \cup {"schedule", "end_balance"},
                                    !.schedule = rows,
                                    !.columns = RowColumns,
                                    !.end_balance = LastEndBalance(rows)]
            /\ pc' = IF args.entry = "Rate" THEN "constructed" ELSE "segment_built"
            /\ UNCHANGED raised
    /\ UNCHANGED <<args, result, p, beg_balance, end_balance, running_date, rows, frame, segments>>

----------------------------------------------------------------------------
(* Mortgage (mortgage.py).                                                 *)

RECURSIVE SumRange(_, _, _, _)
\* the sum of column `field` over rows lo..hi, by halves
SumRange(table, field, lo, hi) ==
    IF lo > hi THEN 0
    ELSE IF lo = hi THEN table[lo][field]
    ELSE LET mid == (lo + hi) \div 2
         IN  SumRange(table, field, lo, mid) + SumRange(table, field, mid + 1, hi)

\* the sum of column `field` over the first n rows
SumField(table, field, n) == SumRange(table, field, 1, n)

MonthKey(row) == <<row.Date.year, row.Date.month>>

KeyLT(a, b) == a[1] < b[1] \/ (a[1] = b[1] /\ a[2] < b[2])

RECURSIVE SortKeys(_)
\* the group keys in ascending order, as groupby orders them
SortKeys(keys) ==
    IF keys = {} THEN <<>>
    ELSE LET least == CHOOSE k \in keys : \A k2 \in keys : k2 = k \/ KeyLT(k, k2)
         IN  <<least>> \o SortKeys(keys \ {least})

\* schedule.groupby(['year', 'month']).agg(sum), reset_index
MonthlySums(schedule) ==
    LET keys == SortKeys({MonthKey(schedule[i]) : i \in 1..Len(schedule)})
        group(k) == SelectSeq(schedule, LAMBDA r : MonthKey(r) = k)
    IN  [i \in 1..Len(keys) |->
            LET g == group(keys[i])
            IN  [year |-> keys[i][1], month |-> keys[i][2],
                 Payment |-> SumField(g, "Payment", Len(g)),
                 Interest |-> SumField(g, "Interest", Len(g)),
                 Additional_Payment |-> SumField(g, "Additional_Payment", Len(g))]]

\* mutant of MonthEndBalances: the rows of the first day of each month
MonthEndBalances_FirstDay(schedule) ==
    LET firsts == SelectSeq(schedule, LAMBDA r : r.Date.day = 1)
    IN  [i \in 1..Len(firsts) |->
            [year |-> firsts[i].Date.year, month |-> firsts[i].Date.month,
             End_Balance |-> firsts[i].End_Balance]]

\* schedule.loc[schedule['day'] == schedule['end_day'], ['year', 'month', 'End Balance']]
MonthEndBalances(schedule) ==
    LET ends == SelectSeq(schedule,
                    LAMBDA r : r.Date.day = monthrange(r.Date.year, r.Date.month))
    IN  [i \in 1..Len(ends) |->
            [year |-> ends[i].Date.year, month |-> ends[i].Date.month,
             End_Balance |-> ends[i].End_Balance]]

RECURSIVE Concat(_, _)
\* the concatenation of the first n sequences of seqs
Concat(seqs, n) == IF n = 0 THEN <<>> ELSE Concat(seqs, n - 1) \o seqs[n]

\* left.merge(right, how='inner', on=['year', 'month']): the rows of left in
\* order, each paired with every row of right of the same key
MergeInner(left, right) ==
    Concat([i \in 1..Len(left) |->
              LET hits == SelectSeq(right, LAMBDA b : b.year = left[i].year
                                                     /\ b.month = left[i].month)
              IN  [j \in 1..Len(hits) |->
                     [year |-> left[i].year, month |-> left[i].month,
                      Payment |-> left[i].Payment, Interest |-> left[i].Interest,
                      Additional_Payment |-> left[i].Additional_Payment,
                      End_Balance |-> hits[j].End_Balance]]],
           Len(left))

\* Mortgage.calc_schedule_monthly
calc_schedule_monthly(schedule) ==
    LET merged == MergeInner(MonthlySums(schedule), MonthEndBalances(schedule))
    IN  [i \in 1..Len(merged) |->
            [Payment |-> merged[i].Payment,
             Interest |-> merged[i].Interest,
             Additional_Payment |-> merged[i].Additional_Payment,
             End_Balance |-> merged[i].End_Balance,
             Month_Date |-> D(merged[i].year, merged[i].month, 1),
             Principal |-> merged[i].Payment - merged[i].Interest]]

\* dt + relativedelta(months=n): the day clipped to the month's length
AddMonths(dt, n) ==
    LET total == (dt.year * 12 + (dt.month - 1)) + n
        y == total \div 12
        m == (total % 12) + 1
        last == monthrange(y, m)
    IN  D(y, m, IF dt.day > last THEN last ELSE dt.day)

\* mutant of YearsOut: the difference of the calendar years
YearsOut_YearDifference(x, start_date) == x.year - start_date.year

\* relativedelta(x, start_date).years for x on or after start_date: the
\* months between the two, one less if start_date plus them passes x, in
\* whole years
YearsOut(x, start_date) ==
    LET months == (x.year - start_date.year) * 12 + (x.month - start_date.month)
        whole == IF DateLT(x, AddMonths(start_date, months)) THEN months - 1 ELSE months
    IN  whole \div 12

RECURSIVE MinDateRange(_, _, _)
\* the earliest Date of rows lo..hi, by halves
MinDateRange(schedule, lo, hi) ==
    IF lo = hi THEN schedule[lo].Date
    ELSE LET mid == (lo + hi) \div 2
             a == MinDateRange(schedule, lo, mid)
             b == MinDateRange(schedule, mid + 1, hi)
         IN  IF DateLE(a, b) THEN a ELSE b

RECURSIVE MaxDateRange(_, _, _)
\* the latest Date of rows lo..hi, by halves
MaxDateRange(schedule, lo, hi) ==
    IF lo = hi THEN schedule[lo].Date
    ELSE LET mid == (lo + hi) \div 2
             a == MaxDateRange(schedule, lo, mid)
             b == MaxDateRange(schedule, mid + 1, hi)
         IN  IF DateLE(a, b) THEN b ELSE a

\* schedule['Date'].min()
MinDate(schedule) == MinDateRange(schedule, 1, Len(schedule))

\* schedule['Date'].max() of a group
MaxDate(schedule) == MaxDateRange(schedule, 1, Len(schedule))

RECURSIVE SortNumbers(_)
\* the group keys in ascending order, as groupby orders them
SortNumbers(keys) ==
    IF keys = {} THEN <<>>
    ELSE LET least == CHOOSE k \in keys : \A k2 \in keys : k <= k2
         IN  <<least>> \o SortNumbers(keys \ {least})

\* mutant of EndOfYearWindow: the last row's missing difference filled with 0
EndOfYearWindow_FillnaZero(years_out) ==
    [i \in 1..Len(years_out) |->
        LET diff == IF i = Len(years_out) THEN 0 ELSE years_out[i] - years_out[i + 1]
        IN  IF diff < 0 THEN -diff ELSE diff]

\* years_out.diff(-1).fillna(-1).abs(): each row's years_out less the next
\* row's, -1 for the last row, without its sign
EndOfYearWindow(years_out) ==
    [i \in 1..Len(years_out) |->
        LET diff == IF i = Len(years_out) THEN -1 ELSE years_out[i] - years_out[i + 1]
        IN  IF diff < 0 THEN -diff ELSE diff]

\* Mortgage.calc_schedule_yearly
calc_schedule_yearly(schedule) ==
    LET start_date == MinDate(schedule)
        n == Len(schedule)
        years_out == [i \in 1..n |-> YearsOut(schedule[i].Date, start_date)]
        end_of_year_window == EndOfYearWindow(years_out)
        keys == SortNumbers({years_out[i] : i \in 1..n})
        indexed == [i \in 1..n |-> [row |-> schedule[i], years_out |-> years_out[i],
                                    window |-> end_of_year_window[i]]]
        sums == [k \in 1..Len(keys) |->
                    LET sel == SelectSeq(indexed, LAMBDA r : r.years_out = keys[k])
                        g == [i \in 1..Len(sel) |-> sel[i].row]
                    IN  [years_out |-> keys[k],
                         Payment |-> SumField(g, "Payment", Len(g)),
                         Interest |-> SumField(g, "Interest", Len(g)),
                         Additional_Payment |-> SumField(g, "Additional_Payment", Len(g)),
                         Date |-> MaxDate(g)]]
        yearly_end_balances == SelectSeq(indexed, LAMBDA r : r.window = 1)
    IN  Concat([k \in 1..Len(sums) |->
                  LET hits == SelectSeq(yearly_end_balances,
                                        LAMBDA b : b.years_out = sums[k].years_out)
                  IN  [j \in 1..Len(hits) |->
                         [years_out |-> sums[k].years_out,
                          Payment |-> sums[k].Payment,
                          Interest |-> sums[k].Interest,
                          Additional_Payment |-> sums[k].Additional_Payment,
                          Date |-> sums[k].Date,
                          Principal |-> sums[k].Payment - sums[k].Interest,
                          End_Balance |-> hits[j].row.End_Balance]]],
               Len(sums))

\* the columns calc_schedule_monthly adds to self.schedule (lines 150-153)
MonthlyColumns == {"year", "month", "day", "end_day"}

\* the columns calc_schedule_yearly adds to self.schedule (lines 191-192)
YearlyColumns == {"years_out", "end_of_year_window"}

\* Mortgage.__init__ up to the start of the schedule's generation.
\* `not monthly_pmt` (the np.pmt default) is outside the calls modelled.
MortgageInit ==
    /\ pc = "call"
    /\ args.entry = "Mortgage"
    /\ args.monthly_pmt # 0
    /\ self' = [NoSelf EXCEPT
                  !.set = {"principal", "term", "start_date", "end_date", "payment_day"},
                  !.start_balance = args.principal,
                  !.start_date = args.start_date.date,
                  !.end_date = args.end_date.date,
                  !.payment_day = args.payment_day]
    /\ Enter(Frame("mortgage", args.interest_rate, args.term, args.monthly_pmt, 0,
                   args.start_date.date,
                   MortgageEndDate(args.start_date.date, args.term, args.end_date),
                   args.payment_day),
             args.principal)
    /\ pc' = "amortize"
    /\ UNCHANGED <<args, result, segments, raised>>

\* calc_schedule returns and Mortgage.__init__ assigns self.schedule (line
\* 118): an empty table has no 'Date' column, so schedule['Date'] raises
MortgageFinish ==
    /\ pc = "amortize"
    /\ ~LoopCondition(frame, end_balance, running_date)
    /\ args.entry = "Mortgage"
    /\ IF rows = <<>>
       THEN /\ raised' = Error("KeyError", <<"Date">>)
            /\ pc' = "raised"
            /\ UNCHANGED self
       ELSE /\ self' = [self EXCEPT !.set = @ \cup {"schedule"},
                                    !.schedule = rows,
                                    !.columns = RowColumns]
            /\ pc' = "scheduled"
            /\ UNCHANGED raised
    /\ UNCHANGED <<args, result, p, beg_balance, end_balance, running_date, rows, frame, segments>>

\* Mortgage.__init__ computes the aggregations (lines 121-122), each of which
\* sets columns of its own on self.schedule, and returns
MortgageAggregate ==
    /\ pc = "scheduled"
    /\ self' = [self EXCEPT
                  !.set = @ \cup {"schedule_monthly", "schedule_yearly"},
                  !.columns = @ \cup MonthlyColumns \cup YearlyColumns,
                  !.schedule_monthly = calc_schedule_monthly(self.schedule),
                  !.schedule_yearly = calc_schedule_yearly(self.schedule)]
    /\ pc' = "constructed"
    /\ UNCHANGED <<args, result, p, beg_balance, end_balance, running_date, rows, frame,
                   segments, raised>>

\* mutant of InWindow: the start of the window left out
InWindow_StartExclusive(date, start_date, end_date) ==
    DateLT(start_date, date) /\ DateLE(date, end_date)

\* (self.schedule['Date'] >= start_date) & (self.schedule['Date'] <= end_date)
InWindow(date, start_date, end_date) ==
    DateLE(start_date, date) /\ DateLE(date, end_date)

RECURSIVE MaxRange(_, _, _, _)
\* the greatest value of column `field` over rows lo..hi, by halves
MaxRange(table, field, lo, hi) ==
    IF lo = hi THEN table[lo][field]
    ELSE LET mid == (lo + hi) \div 2
             a == MaxRange(table, field, lo, mid)
             b == MaxRange(table, field, mid + 1, hi)
         IN  IF a >= b THEN a ELSE b

\* df[field].max() of a table that has rows
MaxField(table, field) == MaxRange(table, field, 1, Len(table))

\* Mortgage.payment_summary(start_date, end_date) on a Mortgage whose
\* start_date and end_date fields are self_start and self_end (NoDate where
\* the field is None), as [err, value]: the exception raised, or the table of
\* one row returned.  A bound that is None cannot be compared with the Date
\* column; pd.DataFrame takes columns of one length only, and the End
\* Balance column has as many values as rows are dated end_date.
payment_summary(schedule, self_start, self_end, start_date, end_date) ==
    LET from == IF ~Truthy(start_date) THEN self_start ELSE start_date.date
        to == IF ~Truthy(end_date) THEN self_end ELSE end_date.date
        df == SelectSeq(schedule, LAMBDA r : InWindow(r.Date, from, to))
        at_end == SelectSeq(df, LAMBDA r : r.Date = to)
    IN  IF from = NoDate \/ to = NoDate
        THEN [err |-> Error("TypeError",
                            <<"Invalid comparison between dtype=datetime64[ns] and NoneType">>),
              value |-> <<>>]
        ELSE IF Len(at_end) # 1
        THEN [err |-> Error("ValueError", <<"All arrays must be of the same length">>),
              value |-> <<>>]
        ELSE [err |-> NoError,
              value |-> <<[Start_Balance |-> MaxField(df, "Begin_Balance"),
                           Total_Payments |-> SumField(df, "Payment", Len(df)),
                           Total_Interest |-> SumField(df, "Interest", Len(df)),
                           Total_Additional_Payments |->
                               SumField(df, "Additional_Payment", Len(df)),
                           End_Balance |-> at_end[1].End_Balance,
                           Start_Date |-> MinDate(df),
                           End_Date |-> MaxDate(df)]>>]

\* the bounds a caller asks payment_summary for
SummaryStarts == {None, DateVal(D(2019, 1, 25)), DateVal(D(2019, 2, 1))}
SummaryEnds == {None, DateVal(D(2019, 2, 1)), DateVal(D(2019, 2, 15)), DateVal(D(2021, 1, 5))}

\* a method of the Mortgage may be called: __init__ has returned
MortgageConstructed == pc = "constructed" /\ args.entry = "Mortgage"

\* mortgage.payment_summary(start_date, end_date)
PaymentSummary ==
    /\ MortgageConstructed
    /\ \E start_date \in SummaryStarts, end_date \in SummaryEnds :
          LET summary == payment_summary(self.schedule, self.start_date, self.end_date,
                                         start_date, end_date)
          IN  result' = [op |-> "payment_summary", start_date |-> start_date,
                         end_date |-> end_date, err |-> summary.err,
                         value |-> summary.value]
    /\ UNCHANGED <<pc, args, self, p, beg_balance, end_balance, running_date, rows, frame,
                   segments, raised>>

\* mortgage.calc_schedule_monthly(), called again: it sets its columns of
\* self.schedule anew and returns the table
CalcScheduleMonthly ==
    /\ MortgageConstructed
    /\ result' = [NoResult EXCEPT !.op = "calc_schedule_monthly",
                                  !.value = calc_schedule_monthly(self.schedule)]
    /\ self' = [self EXCEPT !.columns = @ \cup MonthlyColumns]
    /\ UNCHANGED <<pc, args, p, beg_balance, end_balance, running_date, rows, frame,
                   segments, raised>>

\* mortgage.calc_schedule_yearly(), called again
CalcScheduleYearly ==
    /\ MortgageConstructed
    /\ result' = [NoResult EXCEPT !.op = "calc_schedule_yearly",
                                  !.value = calc_schedule_yearly(self.schedule)]
    /\ self' = [self EXCEPT !.columns = @ \cup YearlyColumns]
    /\ UNCHANGED <<pc, args, p, beg_balance, end_balance, running_date, rows, frame,
                   segments, raised>>

----------------------------------------------------------------------------
(* The mortgage composed of Rate segments (section 4.3 of the design).     *)

\* the composition begins: an empty list of segments is an error
ComposerInit ==
    /\ pc = "call"
    /\ args.entry = "Composer"
    /\ IF args.rates = <<>>
       THEN /\ raised' = Error("ValueError", <<"Empty-Input">>)
            /\ pc' = "raised"
       ELSE /\ pc' = "segment"
            /\ UNCHANGED raised
    /\ UNCHANGED <<args, result, self, p, beg_balance, end_balance, running_date, rows, frame,
                   segments>>

\* the schedules of the first n segments, one after the other
ComposedSchedule(segs, n) == Concat([i \in 1..Len(segs) |-> segs[i].schedule], n)

\* a segment is built: keep it, and go on to the next or finish with the
\* combined schedule, its first and last date and the last terminal balance
ComposerAppend ==
    /\ pc = "segment_built"
    /\ segments' = Append(segments, self)
    /\ IF Len(segments') < Len(args.rates)
       THEN /\ self' = NoSelf
            /\ pc' = "segment"
       ELSE /\ LET schedule == ComposedSchedule(segments', Len(segments'))
               IN  self' = [NoSelf EXCEPT
                              !.set = {"schedule", "start_date", "end_date", "end_balance"},
                              !.start_balance = args.principal,
                              !.schedule = schedule,
                              !.columns = RowColumns,
                              !.start_date = schedule[1].Date,
                              !.end_date = schedule[Len(schedule)].Date,
                              !.end_balance = self.end_balance]
            /\ pc' = "composed"
    /\ UNCHANGED <<args, result, p, beg_balance, end_balance, running_date, rows, frame, raised>>

Next ==
    \/ RateAmortizeTable
    \/ MortgageAmortizeTable
    \/ RateInit
    \/ MortgageInit
    \/ AmortizeStep
    \/ AmortizeTableReturn
    \/ RateFinish
    \/ MortgageFinish
    \/ MortgageAggregate
    \/ ComposerInit
    \/ ComposerAppend

Spec == Init /\ [][Next]_vars

\* the Mortgages whose methods are called after construction
MethodCalls ==
    {c \in MortgageCalls : c.interest_rate = 365 /\ c.monthly_pmt \in {100000, 400000}}
    \cup {SummaryReferenceCall}

MethodInit == Init /\ args \in MethodCalls

\* a Mortgage is constructed and its methods are called, in any order and
\* any number of times
MethodNext ==
    \/ MortgageInit
    \/ AmortizeStep
    \/ MortgageFinish
    \/ MortgageAggregate
    \/ PaymentSummary
    \/ CalcScheduleMonthly
    \/ CalcScheduleYearly

MethodSpec == MethodInit /\ [][MethodNext]_vars

----------------------------------------------------------------------------
(* Properties of the simulator.                                            *)

NonNegativeInputs ==
    /\ args.principal >= 0
    /\ args.interest_rate >= 0
    /\ args.monthly_pmt >= 0
    /\ args.addl_principal >= 0

MonotonicBalance ==
    \A i \in 1..Len(rows) :
        i < Len(rows) => rows[i + 1].End_Balance <= rows[i].End_Balance

\* C3 as amended: from one row to the next End Balance rises by at most the
\* later row's Interest (so it cannot rise on a day without interest).
BalanceRisesByInterestOnly ==
    NonNegativeInputs =>
        \A i \in 1..Len(rows) :
            i < Len(rows) =>
                rows[i + 1].End_Balance <= rows[i].End_Balance + rows[i + 1].Interest

\* a day on which interest alone raised the balance, followed by a payment day
\* that lowered it
BalanceRisesWitness ==
    \E i \in 1..Len(rows) :
        /\ i + 2 <= Len(rows)
        /\ rows[i + 1].Interest > 0
        /\ rows[i + 1].End_Balance = rows[i].End_Balance + rows[i + 1].Interest
        /\ rows[i + 2].Payment > 0
        /\ rows[i + 2].End_Balance < rows[i + 1].End_Balance

RECURSIVE DaysBeforeMonth(_, _)
DaysBeforeMonth(y, m) ==
    IF m = 1 THEN 0 ELSE DaysBeforeMonth(y, m - 1) + monthrange(y, m - 1)

RECURSIVE DaysBeforeYear(_)
DaysBeforeYear(y) ==
    IF y <= 2018 THEN 0
    ELSE DaysBeforeYear(y - 1) + (IF IsLeap(y - 1) THEN 366 ELSE 365)

\* the day's number counted from 2018-01-01, for (end_date - start_date).days
DayNumber(dt) == DaysBeforeYear(dt.year) + DaysBeforeMonth(dt.year, dt.month) + dt.day

\* C4 as stated (Termination bound): the simulator yields at most
\* (end_date - start_date).days + 1 rows, none dated after its end_date.
RowsWithinEndDate ==
    frame.variant # "none" =>
        /\ \A i \in 1..Len(rows) : DateLE(rows[i].Date, frame.end_date)
        /\ Len(rows) <= IF DateLE(frame.start_date, frame.end_date)
                        THEN DayNumber(frame.end_date) - DayNumber(frame.start_date) + 1
                        ELSE 0

\* the part of C4 that _amortize of rate.py meets
RowsWithinEndDateRate == frame.variant = "rate" => RowsWithinEndDate

RECURSIVE RowsBefore(_)
\* the number of rows of the segments before the last of segs
RowsBefore(segs) ==
    IF Len(segs) <= 1 THEN 0
    ELSE RowsBefore(SubSeq(segs, 1, Len(segs) - 1)) + Len(segs[Len(segs) - 1].schedule)

Finished == pc \in {"returned", "constructed"}

\* the final End Balance the tests expect of a reference call, in cents
ReferenceBalance(call) ==
    IF call.monthly_pmt = 1100000 THEN 7534560
    ELSE IF call.addl_principal = 0 THEN 8893988
    ELSE IF call.payment_day = 1 THEN 8773323
    ELSE 8773649

----------------------------------------------------------------------------
(* Properties of Rate.__init__.                                            *)

MissingBoundError ==
    Error("ValueError", <<"No term or ", "end_date", " provide, provide one or the other.">>)

\* a value that is neither a date nor a string that reads as YYYY-MM-DD
InvalidDateInput(v) ==
    \/ v.kind \notin {"date", "str"}
    \/ v.kind = "str" /\ strptime(v.chars).err # NoError

\* Rate.__init__ has run with a start_date it accepted
RateBegun ==
    /\ args.entry = "Rate"
    /\ pc # "call"
    /\ ~InvalidDateInput(args.start_date)

\* the date an accepted end_date input of the model denotes
DenotedEndDate ==
    IF args.end_date.kind = "date" THEN args.end_date.date ELSE D(2019, 3, 5)

\* C7 (End date resolution): with only term given the Rate's end_date is
\* start_date + term years; with only end_date given it is that date; with
\* neither, construction fails with the Missing-Bound error before the
\* simulator has run, and no schedule or end_balance exists.
EndDateResolution ==
    RateBegun =>
        /\ (args.term # 0 /\ args.end_date = None) =>
              /\ raised.type \notin {"ValueError", "Warning"}
              /\ "end_date" \in self.set
              /\ self.end_date = D(self.start_date.year + args.term,
                                   self.start_date.month, self.start_date.day)
              /\ frame.end_date = self.end_date
        /\ (args.term = 0 /\ args.end_date # None /\ ~InvalidDateInput(args.end_date)) =>
              /\ raised.type \notin {"ValueError", "Warning"}
              /\ "end_date" \in self.set
              /\ self.end_date = DenotedEndDate
              /\ frame.end_date = self.end_date
        /\ (args.term = 0 /\ args.end_date = None) =>
              /\ pc = "raised"
              /\ raised = MissingBoundError
              /\ frame = NoFrame
              /\ rows = <<>>
              /\ self.set \cap {"end_date", "schedule", "end_balance"} = {}

\* a Rate given neither term nor end_date, ended by the Missing-Bound error
EndDateResolutionWitness ==
    /\ RateBegun
    /\ args.term = 0
    /\ args.end_date = None
    /\ pc = "raised"
    /\ raised = MissingBoundError

\* a Rate given only a term, constructed with its schedule
TermOnlyConstructed ==
    /\ RateBegun
    /\ args.term # 0
    /\ args.end_date = None
    /\ pc = "constructed"
    /\ self.end_date = D(2020, 1, 20)

\* C8 as stated (Conflicting bounds): with both term and end_date given,
\* construction is not ended by the conflict: the Rate takes end_date as its
\* end and goes on to build its schedule as if only end_date had been given.
BothBoundsProceeds ==
    (RateBegun /\ args.term # 0 /\ args.end_date # None
        /\ ~InvalidDateInput(args.end_date)) =>
        /\ raised.type # "Warning"
        /\ self.end_date = DenotedEndDate
        /\ frame.end_date = DenotedEndDate

Mentions(err, field) == \E i \in 1..Len(err.msg) : err.msg[i] = field

\* C9 as stated (Invalid dates): a start_date or end_date that is neither a
\* date nor a string that reads as YYYY-MM-DD ends construction with a
\* ValueError that names the field; a date or a valid string is accepted as
\* the date it denotes.  (For end_date the values python takes as false,
\* which __init__ reads as no end_date at all, are left out.)
InvalidDateNamesField ==
    (args.entry = "Rate" /\ pc # "call") =>
        /\ InvalidDateInput(args.start_date) =>
              /\ pc = "raised"
              /\ raised.type = "ValueError"
              /\ Mentions(raised, "start_date")
        /\ (~InvalidDateInput(args.start_date) /\ Truthy(args.end_date)
               /\ InvalidDateInput(args.end_date)) =>
              /\ pc = "raised"
              /\ raised.type = "ValueError"
              /\ Mentions(raised, "end_date")
        /\ ~InvalidDateInput(args.start_date) => self.start_date = D(2019, 1, 20)
                                                 \/ args \in ReferenceCalls

\* the part of C9 the code meets: invalid dates end construction with a
\* ValueError, and accepted ones give the date they denote
InvalidDateRejected ==
    (args.entry = "Rate" /\ pc # "call") =>
        /\ InvalidDateInput(args.start_date) => pc = "raised" /\ raised.type = "ValueError"
        /\ ~InvalidDateInput(args.start_date) =>
              self.start_date = D(2019, 1, 20) \/ args \in ReferenceCalls

----------------------------------------------------------------------------
(* Properties of the monthly aggregation.                                  *)

MonthsOf(schedule) == {MonthKey(schedule[i]) : i \in 1..Len(schedule)}

\* C10 as stated (Monthly coverage): the monthly aggregation has exactly one
\* row for every (year, month) that has a daily row, a last month cut short
\* included, so its Payment, Interest and Additional_Payment sums add up to
\* the totals over the daily rows.
MonthlyCoversEveryMonth ==
    (pc = "constructed" /\ args.entry = "Mortgage") =>
        LET monthly == self.schedule_monthly
            daily == self.schedule
        IN  /\ Len(monthly) = Cardinality(MonthsOf(daily))
            /\ \A k \in MonthsOf(daily) :
                  Cardinality({i \in 1..Len(monthly) :
                                  monthly[i].Month_Date = D(k[1], k[2], 1)}) = 1
            /\ \A f \in {"Payment", "Interest", "Additional_Payment"} :
                  SumField(monthly, f, Len(monthly)) = SumField(daily, f, Len(daily))

RECURSIVE SumIf(_, _, _, _, _)
\* the sum of column `field` over the rows among lo..hi that keep holds of
SumIf(table, field, keep(_), lo, hi) ==
    IF lo > hi THEN 0
    ELSE IF lo = hi THEN (IF keep(table[lo]) THEN table[lo][field] ELSE 0)
    ELSE LET mid == (lo + hi) \div 2
         IN  SumIf(table, field, keep, lo, mid) + SumIf(table, field, keep, mid + 1, hi)

MonthEnd(y, m) == D(y, m, monthrange(y, m))

\* C11 (Monthly end balance): every row of the monthly aggregation carries
\* the End Balance of the daily row dated on the last calendar day of its
\* month, so when the last daily row falls on a month end the last monthly
\* End Balance is the schedule's final End Balance; and its Principal is the
\* month's summed Payment less the month's summed Interest.
MonthlyEndBalance ==
    (pc = "constructed" /\ args.entry = "Mortgage") =>
        LET monthly == self.schedule_monthly
            daily == self.schedule
            last == daily[Len(daily)]
        IN  /\ \A i \in 1..Len(monthly) :
                  LET y == monthly[i].Month_Date.year
                      m == monthly[i].Month_Date.month
                      of_month(r) == r.Date.year = y /\ r.Date.month = m
                  IN  /\ \E j \in 1..Len(daily) : daily[j].Date = MonthEnd(y, m)
                      /\ \A j \in 1..Len(daily) :
                            daily[j].Date = MonthEnd(y, m) =>
                                monthly[i].End_Balance = daily[j].End_Balance
                      /\ monthly[i].Principal =
                            SumIf(daily, "Payment", of_month, 1, Len(daily))
                            - SumIf(daily, "Interest", of_month, 1, Len(daily))
            /\ last.Date = MonthEnd(last.Date.year, last.Date.month) =>
                  /\ monthly # <<>>
                  /\ monthly[Len(monthly)].End_Balance = last.End_Balance

\* a Mortgage whose schedule ends on a month end after more than one month,
\* with a month of interest and a payment
MonthlyEndBalanceWitness ==
    /\ pc = "constructed"
    /\ args.entry = "Mortgage"
    /\ Len(self.schedule_monthly) >= 2
    /\ self.schedule[Len(self.schedule)].Date = D(2019, 12, 31)
    /\ self.schedule[Len(self.schedule)].End_Balance > 0
    /\ self.schedule_monthly[Len(self.schedule_monthly)].End_Balance =
           self.schedule[Len(self.schedule)].End_Balance
    /\ \E i \in 1..Len(self.schedule_monthly) :
          /\ self.schedule_monthly[i].Payment > 0
          /\ self.schedule_monthly[i].Interest > 0
          /\ self.schedule_monthly[i].Principal # self.schedule_monthly[i].Payment

----------------------------------------------------------------------------
(* Properties of the yearly aggregation.                                   *)

MaxYears == 3        \* more years than any schedule of the model spans

\* the anniversaries of `first` that have come by `date`
YearsElapsed(first, date) ==
    Cardinality({k \in 1..MaxYears : DateLE(AddYears(first, k), date)})

\* C12 (Yearly grouping): the yearly aggregation has exactly one row for each
\* number of whole years elapsed since the schedule's first date that occurs
\* among the daily rows, with the sums of the group's Payment, Interest and
\* Additional_Payment, and the row's End Balance is that of the last daily
\* row of the group: the row before the number of years goes up, or the last
\* row of the schedule.
YearlyGroups ==
    (pc = "constructed" /\ args.entry = "Mortgage") =>
        LET yearly == self.schedule_yearly
            daily == self.schedule
            n == Len(daily)
            elapsed == [i \in 1..n |-> YearsElapsed(daily[1].Date, daily[i].Date)]
            groups == {elapsed[i] : i \in 1..n}
        IN  /\ Len(yearly) = Cardinality(groups)
            /\ \A k \in groups :
                  LET members == {i \in 1..n : elapsed[i] = k}
                      last == CHOOSE i \in members : \A j \in members : j <= i
                  IN  /\ Cardinality({y \in 1..Len(yearly) : yearly[y].years_out = k}) = 1
                      /\ \A y \in 1..Len(yearly) :
                            yearly[y].years_out = k =>
                                /\ yearly[y].End_Balance = daily[last].End_Balance
                                /\ \A f \in {"Payment", "Interest", "Additional_Payment"} :
                                      yearly[y][f] =
                                          SumIf(daily, f,
                                                LAMBDA r : YearsElapsed(daily[1].Date, r.Date) = k,
                                                1, n)
                      /\ last = n \/ elapsed[last + 1] = k + 1

\* the two-year Mortgage of the tests: two yearly rows, the first with the End
\* Balance of 2019-12-31, the second with that of the schedule's last row
YearlyGroupsWitness ==
    /\ pc = "constructed"
    /\ args.entry = "Mortgage"
    /\ Len(self.schedule) = 731
    /\ Len(self.schedule_yearly) = 2
    /\ self.schedule[365].Date = D(2019, 12, 31)
    /\ self.schedule_yearly[1].End_Balance = self.schedule[365].End_Balance
    /\ self.schedule_yearly[2].End_Balance = self.schedule[731].End_Balance
    /\ self.schedule_yearly[1].End_Balance # self.schedule_yearly[2].End_Balance

\* the two-year Mortgage of TestMortgage.test_yearly_schedule
YearlyReferenceCall ==
    Call("Mortgage", 100000000, 10, 1100000, 0, DateVal(D(2019, 1, 1)), 2,
         DateVal(D(2020, 12, 31)), 1)

\* C13 (Yearly conservation): the Payment, Interest and Additional_Payment
\* of the yearly rows add up to those of the daily rows, and the yearly
\* Interest of the two-year reference Mortgage adds up to 1745.60.
YearlyConservesFlows ==
    (pc = "constructed" /\ args.entry = "Mortgage") =>
        LET yearly == self.schedule_yearly
            daily == self.schedule
        IN  /\ \A f \in {"Payment", "Interest", "Additional_Payment"} :
                  SumField(yearly, f, Len(yearly)) = SumField(daily, f, Len(daily))
            /\ args = YearlyReferenceCall =>
                  SumField(yearly, "Interest", Len(yearly)) = 174560

\* the two-year reference Mortgage, constructed, with interest in both years
YearlyConservesWitness ==
    /\ pc = "constructed"
    /\ args = YearlyReferenceCall
    /\ Len(self.schedule_yearly) = 2
    /\ self.schedule_yearly[1].Interest > 0
    /\ self.schedule_yearly[2].Interest > 0
    /\ self.schedule_yearly[1].Interest + self.schedule_yearly[2].Interest = 174560

----------------------------------------------------------------------------
(* Properties of payment_summary.                                          *)

\* payment_summary has been called and `result` is what came of it
Summarised == result.op = "payment_summary"

\* the row of the schedule dated `date`, where there is one
RowDated(schedule, date) ==
    schedule[CHOOSE i \in 1..Len(schedule) : schedule[i].Date = date]

HasRowDated(schedule, date) == \E i \in 1..Len(schedule) : schedule[i].Date = date

\* C14 as stated (Default bounds): a bound that payment_summary is called
\* without is the date of the schedule's first row (start_date) or of its
\* last row (end_date), so the summary called without bounds is returned,
\* totals every row of the schedule and has the End Balance of the last row.
DefaultSummaryCoversSchedule ==
    (Summarised /\ (result.start_date = None \/ result.end_date = None)) =>
        LET daily == self.schedule
            from == IF result.start_date = None THEN daily[1].Date
                    ELSE result.start_date.date
            to == IF result.end_date = None THEN daily[Len(daily)].Date
                  ELSE result.end_date.date
            within(r) == DateLE(from, r.Date) /\ DateLE(r.Date, to)
        IN  (DateLE(from, to) /\ HasRowDated(daily, to)) =>
                /\ result.err = NoError
                /\ result.value[1].Total_Payments =
                       SumIf(daily, "Payment", within, 1, Len(daily))
                /\ result.value[1].Total_Interest =
                       SumIf(daily, "Interest", within, 1, Len(daily))
                /\ result.value[1].End_Balance = RowDated(daily, to).End_Balance

\* payment_summary was called with both bounds and returned a summary
SummarisedWindow ==
    /\ Summarised
    /\ result.start_date # None
    /\ result.end_date # None
    /\ result.err = NoError

\* C15 (Window totals): a summary returned for start_date and end_date has
\* one row; its Total Payments, Total Interest and Total Additional Payments
\* are the sums over exactly the daily rows with start_date <= Date <=
\* end_date, both bounds included, and its Start Date and End Date are the
\* earliest and the latest Date among those rows.
SummaryTotalsWindow ==
    SummarisedWindow =>
        LET daily == self.schedule
            n == Len(daily)
            summary == result.value[1]
            within(r) == /\ DateLE(result.start_date.date, r.Date)
                         /\ DateLE(r.Date, result.end_date.date)
            window == {i \in 1..n : within(daily[i])}
        IN  /\ Len(result.value) = 1
            /\ summary.Total_Payments = SumIf(daily, "Payment", within, 1, n)
            /\ summary.Total_Interest = SumIf(daily, "Interest", within, 1, n)
            /\ summary.Total_Additional_Payments =
                   SumIf(daily, "Additional_Payment", within, 1, n)
            /\ \E i \in window : daily[i].Date = summary.Start_Date
            /\ \E i \in window : daily[i].Date = summary.End_Date
            /\ \A i \in window : /\ DateLE(summary.Start_Date, daily[i].Date)
                                  /\ DateLE(daily[i].Date, summary.End_Date)

\* a summary of a window inside the schedule, from 2019-01-25 to 2019-02-15,
\* with interest on its first and last day and a payment between them
SummaryTotalsWitness ==
    /\ SummarisedWindow
    /\ result.start_date = DateVal(D(2019, 1, 25))
    /\ result.end_date = DateVal(D(2019, 2, 15))
    /\ self.schedule[1].Date = D(2019, 1, 1)
    /\ Len(self.schedule) > 60
    /\ RowDated(self.schedule, D(2019, 1, 25)).Interest > 0
    /\ RowDated(self.schedule, D(2019, 2, 15)).Interest > 0
    /\ result.value[1].Total_Payments > 0
    /\ result.value[1].Total_Interest > 0
    /\ result.value[1].Start_Date = D(2019, 1, 25)
    /\ result.value[1].End_Date = D(2019, 2, 15)

\* C16 as stated (Start balance): the Start Balance of a summary, the
\* greatest Begin Balance of its window, is the balance the window starts on:
\* the Begin Balance of the window's earliest row.
StartBalanceIsFirstRow ==
    (Summarised /\ result.err = NoError /\ NonNegativeInputs) =>
        result.value[1].Start_Balance =
            RowDated(self.schedule, result.value[1].Start_Date).Begin_Balance

\* the part of C16 the code meets: Start Balance is the greatest Begin
\* Balance among the rows of the window, and no less than the first row's
StartBalanceIsGreatest ==
    (Summarised /\ result.err = NoError) =>
        LET daily == self.schedule
            summary == result.value[1]
            window == {i \in 1..Len(daily) : /\ DateLE(summary.Start_Date, daily[i].Date)
                                              /\ DateLE(daily[i].Date, summary.End_Date)}
        IN  /\ \A i \in window : daily[i].Begin_Balance <= summary.Start_Balance
            /\ \E i \in window : daily[i].Begin_Balance = summary.Start_Balance

\* the end_date the summary was asked for: the one given, or the Mortgage's
SummaryEndDate ==
    IF result.end_date = None THEN self.end_date ELSE result.end_date.date

\* an error that tells of the miss: its message names the end date, the
\* Date or End Balance column, or the miss itself
ExplicitRangeMiss(err) ==
    /\ err.type # "none"
    /\ \E name \in {"end_date", "Date", "End Balance", "Range-Miss"} : Mentions(err, name)

\* C17 as stated (Range miss): a summary returned has the End Balance of the
\* row dated exactly end_date; when no row has that date, the call ends in
\* an error that tells of the range miss and returns no summary (the code
\* documents no sentinel).
RangeMissExplicit ==
    Summarised =>
        IF HasRowDated(self.schedule, SummaryEndDate)
        THEN result.err = NoError =>
                 /\ Len(result.value) = 1
                 /\ result.value[1].End_Balance =
                        RowDated(self.schedule, SummaryEndDate).End_Balance
        ELSE /\ result.value = <<>>
             /\ ExplicitRangeMiss(result.err)

\* the start_date the summary was asked for: the one given, or the Mortgage's
SummaryStartDate ==
    IF result.start_date = None THEN self.start_date ELSE result.start_date.date

\* the part of C17 the code meets: a summary returned has the End Balance of
\* the row dated end_date, and without such a row on or after start_date the
\* call raises and no summary is returned
RangeMissRaises ==
    Summarised =>
        IF /\ HasRowDated(self.schedule, SummaryEndDate)
           /\ DateLE(SummaryStartDate, SummaryEndDate)
        THEN /\ result.err = NoError
             /\ Len(result.value) = 1
             /\ result.value[1].End_Balance =
                    RowDated(self.schedule, SummaryEndDate).End_Balance
        ELSE /\ result.value = <<>>
             /\ result.err.type \in {"ValueError", "TypeError"}

----------------------------------------------------------------------------
(* Properties of the rows of the simulator, day by day.                    *)

\* _amortize has run to the end of its loop
Generated == frame.variant # "none" /\ pc # "amortize"

\* C18 as stated (One row a day): row n has Period n and the date n - 1 days
\* after start_date; a row with End Balance <= 0 has no row after it; no row
\* is dated after end_date, and once the loop has ended on a balance that no
\* row brought to 0 the last row is dated end_date: the rows are the days
\* from start_date to the day of the payoff or end_date, whichever is first.
RowsCoverRange ==
    frame.variant # "none" =>
        /\ \A i \in 1..Len(rows) :
              /\ rows[i].Period = i
              /\ DayNumber(rows[i].Date) = DayNumber(frame.start_date) + i - 1
              /\ i < Len(rows) => rows[i].End_Balance > 0
              /\ DateLE(rows[i].Date, frame.end_date)
        /\ (Generated /\ rows # <<>> /\ rows[Len(rows)].End_Balance > 0) =>
              rows[Len(rows)].Date = frame.end_date
        /\ (Generated /\ rows = <<>>) =>
              beg_balance <= 0 \/ DateLT(frame.end_date, frame.start_date)

\* the part of C18 that _amortize of rate.py meets: all of it
RowsCoverRangeRate == frame.variant = "rate" => RowsCoverRange

\* what _amortize of mortgage.py meets: the rows are the days from start_date
\* to the day of the payoff or the last day before start_date + years
RowsCoverYears ==
    frame.variant = "mortgage" =>
        /\ \A i \in 1..Len(rows) :
              /\ rows[i].Period = i
              /\ DayNumber(rows[i].Date) = DayNumber(frame.start_date) + i - 1
              /\ i < Len(rows) => rows[i].End_Balance > 0
        /\ (Generated /\ rows # <<>> /\ rows[Len(rows)].End_Balance > 0) =>
              NextDay(rows[Len(rows)].Date) = AddYears(frame.start_date, frame.years)

Max(a, b) == IF a >= b THEN a ELSE b

----------------------------------------------------------------------------
(* The schedule of a Mortgage as a value that is read and not written.     *)

\* C20 as stated (Schedule read-only): from the moment calc_schedule has
\* built the schedule of a Mortgage, no step changes it: not the monthly or
\* the yearly aggregation, computed by __init__ or by a later call, nor
\* payment_summary; it keeps its rows, its fields and its values.
ScheduleReadOnly ==
    [][("schedule" \in self.set /\ args.entry = "Mortgage") =>
          /\ self'.schedule = self.schedule
          /\ self'.columns = self.columns]_vars

\* the part of C20 the code meets: the rows and their values stay as built
ScheduleRowsKept ==
    ("schedule" \in self.set /\ args.entry = "Mortgage") => self.schedule = rows

\* and after __init__ has returned no call changes the Mortgage at all
MethodsKeepSchedule == [][MortgageConstructed => self' = self]_vars

====
